---- MODULE Spec2Model ----
(***************************************************************************)
(* A model of glitch_this.ImageGlitcher (src/glitch_this/glitch_this.py).  *)
(*                                                                         *)
(* One ImageGlitcher instance.  glitch_image is split at its call sites:   *)
(* the input checks and the decoding, one step per iteration of the band   *)
(* shift loop (a whole glitch_right / glitch_left call), the reshape, and  *)
(* the channel pass (the three random draws, the whole color_offset call   *)
(* and the return).  An array is a function row -> (flat column -> sample),*)
(* flat column = column * pixel_tuple_len + channel, rows and columns      *)
(* counted from 0 as in the source; numpy's reshape between the 3D and the *)
(* flattened view keeps this row-major order.                              *)
(***************************************************************************)
EXTENDS Integers, FiniteSets, Sequences, TLC

\* Bounds of the model: the largest image decoded (its width, height and
\* bands, its number of pixels and of samples), the cap of the counter of
\* random draws, and the largest offset a direct call of a method is given.
MaxWidth == 3
MaxHeight == 4
MaxChannels == 2
MaxPixels == 12
MaxSamples == 16
MaxDraws == 2
MaxShift == 3

\* The range of glitch_amount that glitch_image accepts.
MinAmount == 1
MaxAmount == 10

VARIABLES
    pc,               \* where the instance is: idle, loop, flat, done, error
                      \* (and ready, ready_flat, returned between direct calls)
    err,              \* the exception that ended the last call, or "none"
    img_width,        \* self.img_width (0: not assigned yet)
    img_height,       \* self.img_height
    pixel_tuple_len,  \* self.pixel_tuple_len
    inputarr,         \* self.inputarr
    outputarr,        \* self.outputarr
    glitch_amount,    \* glitch_image's parameter
    max_offset,       \* glitch_image's local
    iter,             \* iterations of the band shift loop done
    call,             \* the last method call: its name, arguments and locals
    lastOffset,       \* per row, while bands are shifted: the offset of the
                      \* last shift over the row (to the right; 0: none yet)
    draws,            \* random draws made so far (capped at MaxDraws)
    glitch_img        \* the image the current glitch_image call returned

vars == <<pc, err, img_width, img_height, pixel_tuple_len, inputarr, outputarr,
          glitch_amount, max_offset, iter, call, lastOffset, draws, glitch_img>>

fields == <<img_width, img_height, pixel_tuple_len, inputarr, outputarr>>

NoArray == <<>>

Min(a, b) == IF a < b THEN a ELSE b
Max(a, b) == IF a > b THEN a ELSE b

\* What a method call leaves on record: its name, and those of its arguments
\* and locals that the properties below read; the others are 0.
NoCall ==
    [op |-> "none", glitch_amount |-> 0, offset |-> 0, start_y |-> 0,
     chunk_height |-> 0, offset_x |-> 0, offset_y |-> 0, channel_index |-> 0]

\* The images the codec can hand over: width, height, number of bands.
Shapes ==
    {s \in (1..MaxWidth) \X (1..MaxHeight) \X (1..MaxChannels) :
        s[1] * s[2] <= MaxPixels /\ s[1] * s[2] * s[3] <= MaxSamples}

\* The amounts a caller passes: the accepted range and one value each side.
Amounts == (MinAmount - 1)..(MaxAmount + 1)

\* The decoded samples of an image: every sample is its own position, so
\* that a sample of the result names the source position it came from.
Pixels(w, h, c) == [r \in 0..(h - 1) |-> [k \in 0..(w * c - 1) |-> r * w * c + k]]

Draw(n) == Min(draws + n, MaxDraws)

Init ==
    /\ pc = "idle"
    /\ err = "none"
    /\ img_width = 0
    /\ img_height = 0
    /\ pixel_tuple_len = 0
    /\ inputarr = NoArray
    /\ outputarr = NoArray
    /\ glitch_amount = 0
    /\ max_offset = 0
    /\ iter = 0
    /\ call = NoCall
    /\ lastOffset = NoArray
    /\ draws = 0
    /\ glitch_img = NoArray

----------------------------------------------------------------------------
(* glitch_image: the input checks and the decoding                         *)

\* The check of line 15 without its lower end.
AmountValid_NoLowerBound(a) == a <= MaxAmount

\* Line 15: 1 <= glitch_amount <= 10
AmountValid(a) == MinAmount <= a /\ a <= MaxAmount

\* int((glitch_amount ** 2 / 100) * img_width): Python 3's true division,
\* truncated; for the amounts 1..10 the float product truncates to the
\* integer quotient.
MaxOffset(a, w) == (a * a * w) \div 100

\* glitch_image can be called on a new instance and after any call that
\* has ended.  A call whose amount is accepted reads no field before it
\* assigns it, so it goes on as on a new instance and is taken from there;
\* the calls that follow another call are those that line 15 rejects.
CanCall == pc \in {"idle", "done", "error"}
Fresh == pc = "idle"

\* A call that raises before it assigns anything.
Raise(a, e) ==
    /\ pc' = "error"
    /\ err' = e
    /\ call' = [NoCall EXCEPT !.op = "glitch_image", !.glitch_amount = a]
    /\ glitch_img' = NoArray
    /\ UNCHANGED <<fields, glitch_amount, max_offset, iter, lastOffset, draws>>

\* Line 15: the amount is checked first, whatever the path names.
RejectAmount ==
    \E a \in Amounts :
        /\ CanCall
        /\ ~AmountValid(a)
        /\ Raise(a, "glitch_amount")

\* Line 17: the path names no file.
RejectMissing ==
    \E a \in Amounts :
        /\ Fresh
        /\ AmountValid(a)
        /\ Raise(a, "not_found")

\* Line 20: the path names a file that Image.open cannot read.
RejectFormat ==
    \E a \in Amounts :
        /\ Fresh
        /\ AmountValid(a)
        /\ Raise(a, "not_supported")

\* Lines 21-42: the path names an image of shape s.
Decode ==
    \E a \in Amounts, s \in Shapes :
        /\ Fresh
        /\ AmountValid(a)
        /\ pc' = "loop"
        /\ err' = "none"
        /\ img_width' = s[1]
        /\ img_height' = s[2]
        /\ pixel_tuple_len' = s[3]
        /\ inputarr' = Pixels(s[1], s[2], s[3])
        /\ outputarr' = Pixels(s[1], s[2], s[3])
        /\ glitch_amount' = a
        /\ max_offset' = MaxOffset(a, s[1])
        /\ iter' = 0
        /\ call' = [NoCall EXCEPT !.op = "glitch_image", !.glitch_amount = a]
        /\ lastOffset' = [r \in 0..(s[2] - 1) |-> 0]
        /\ glitch_img' = NoArray
        /\ UNCHANGED draws

----------------------------------------------------------------------------
(* glitch_left, glitch_right                                               *)

\* glitch_right pasting into inputarr instead of outputarr.
GlitchRight_IntoInput(in, out, offset, start_y, stop_y) ==
    LET stop_x == img_width - offset
        start_x == offset
        n == pixel_tuple_len
    IN  [outputarr |-> out,
         inputarr |->
            [r \in DOMAIN in |->
                IF start_y <= r /\ r < stop_y
                THEN [k \in DOMAIN in[r] |->
                        IF k \div n >= start_x
                        THEN in[r][(k \div n - start_x) * n + (k % n)]
                        ELSE in[r][(stop_x + k \div n) * n + (k % n)]]
                ELSE in[r]]]

\* glitch_right copying from outputarr, so that shifts add up.
GlitchRight_Compound(in, out, offset, start_y, stop_y) ==
    LET stop_x == img_width - offset
        start_x == offset
        n == pixel_tuple_len
    IN  [inputarr |-> in,
         outputarr |->
            [r \in DOMAIN out |->
                IF start_y <= r /\ r < stop_y
                THEN [k \in DOMAIN out[r] |->
                        IF k \div n >= start_x
                        THEN out[r][(k \div n - start_x) * n + (k % n)]
                        ELSE out[r][(stop_x + k \div n) * n + (k % n)]]
                ELSE out[r]]]

\* The rows start_y : stop_y of the buffers after glitch_right's two slice
\* assignments, for 0 <= offset <= img_width: columns start_x.. take the
\* source columns ..stop_x, columns ..start_x take the source columns stop_x..
GlitchRight(in, out, offset, start_y, stop_y) ==
    LET stop_x == img_width - offset
        start_x == offset
        n == pixel_tuple_len
    IN  [inputarr |-> in,
         outputarr |->
            [r \in DOMAIN out |->
                IF start_y <= r /\ r < stop_y
                THEN [k \in DOMAIN out[r] |->
                        IF k \div n >= start_x
                        THEN in[r][(k \div n - start_x) * n + (k % n)]
                        ELSE in[r][(stop_x + k \div n) * n + (k % n)]]
                ELSE out[r]]]

\* The same for glitch_left: columns ..stop_x take the source columns
\* start_x.., columns stop_x.. take the source columns ..start_x.
GlitchLeft(in, out, offset, start_y, stop_y) ==
    LET start_x == offset
        stop_x == img_width - start_x
        n == pixel_tuple_len
    IN  [inputarr |-> in,
         outputarr |->
            [r \in DOMAIN out |->
                IF start_y <= r /\ r < stop_y
                THEN [k \in DOMAIN out[r] |->
                        IF k \div n < stop_x
                        THEN in[r][(start_x + k \div n) * n + (k % n)]
                        ELSE in[r][(k \div n - stop_x) * n + (k % n)]]
                ELSE out[r]]]

\* start_y = randint(0, self.img_height): both ends included.
StartRows == 0..img_height

\* chunk_height = randint(1, int(self.img_height / 4)): an empty range
\* makes randint raise ValueError.
ChunkHeights == 1..(img_height \div 4)

\* chunk_height = min(chunk_height, self.img_height - start_y)
Clamp(chunk_height, start_y) == Min(chunk_height, img_height - start_y)

\* One call of a band shift, direction "glitch_right" or "glitch_left",
\* from the state `back` the caller continues in.
Shift(direction, offset, back) ==
    \E start_y \in StartRows :
        \/ /\ ChunkHeights = {}
           /\ pc' = "error"
           /\ err' = "ValueError"
           /\ call' = [NoCall EXCEPT !.op = direction, !.offset = offset,
                                     !.start_y = start_y]
           /\ UNCHANGED <<inputarr, outputarr, lastOffset>>
        \/ \E drawn \in ChunkHeights :
            LET chunk_height == Clamp(drawn, start_y)
                stop_y == start_y + chunk_height
                b == IF direction = "glitch_right"
                     THEN GlitchRight(inputarr, outputarr, offset, start_y, stop_y)
                     ELSE GlitchLeft(inputarr, outputarr, offset, start_y, stop_y)
            IN  /\ pc' = back
                /\ err' = "none"
                /\ call' = [NoCall EXCEPT !.op = direction, !.offset = offset,
                                          !.start_y = start_y,
                                          !.chunk_height = chunk_height]
                /\ inputarr' = b.inputarr
                /\ outputarr' = b.outputarr
                /\ lastOffset' =
                       [r \in DOMAIN lastOffset |->
                           IF start_y <= r /\ r < stop_y
                           THEN (IF direction = "glitch_right" THEN offset ELSE -offset)
                           ELSE lastOffset[r]]

----------------------------------------------------------------------------
(* glitch_image: the band shift loop, lines 43-57                          *)

\* The loop without its skip of a zero offset.
IsZero_Never(current_offset) == FALSE

\* current_offset is 0: identity with the int 0, which a drawn 0 is.
IsZero(current_offset) == current_offset = 0

InLoop == pc = "loop" /\ iter < glitch_amount * 2

LoopSkip ==
    \E current_offset \in 0..max_offset :
        /\ InLoop
        /\ IsZero(current_offset)
        /\ iter' = iter + 1
        /\ draws' = Draw(1)
        /\ call' = [NoCall EXCEPT !.op = "skip"]
        /\ UNCHANGED <<pc, err, fields, glitch_amount, max_offset, lastOffset,
                       glitch_img>>

LoopShift ==
    \E current_offset \in 0..max_offset :
        /\ InLoop
        /\ ~IsZero(current_offset)
        /\ IF current_offset < 0
           THEN Shift("glitch_left", -current_offset, "loop")
           ELSE Shift("glitch_right", current_offset, "loop")
        /\ iter' = iter + 1
        /\ draws' = Draw(IF ChunkHeights = {} THEN 2 ELSE 3)
        /\ UNCHANGED <<img_width, img_height, pixel_tuple_len, glitch_amount,
                       max_offset, glitch_img>>

\* Lines 60-61: both arrays are reshaped to (img_height, -1).
Reshape ==
    /\ pc = "loop"
    /\ iter = glitch_amount * 2
    /\ pc' = "flat"
    /\ call' = [NoCall EXCEPT !.op = "reshape"]
    /\ lastOffset' = NoArray
    /\ UNCHANGED <<err, fields, glitch_amount, max_offset, iter, draws, glitch_img>>

----------------------------------------------------------------------------
(* color_offset, lines 183-191                                             *)

\* numpy's index i into an axis of length n: -n..-1 count from the end,
\* anything outside -n..n-1 raises IndexError.
InAxis(i, n) == -n <= i /\ i < n
AxisIndex(i, n) == IF i < 0 THEN i + n ELSE i

\* Line 183: the flattened start column.
FlatOffset(offset_x, channel_index) ==
    IF offset_x # 0 THEN offset_x * pixel_tuple_len + channel_index ELSE channel_index

\* Line 185: the positions of inputarr the loop does not skip.
Enumerated(index1) == index1 % pixel_tuple_len = 0

\* Line 188: offset_y after the row wrap at row index0.
WrapY(offset_y, index0) ==
    IF offset_y + index0 >= img_height THEN -index0 ELSE offset_y

\* The column wrap restarting at column 0 instead of the channel's slot.
WrapX_NoChannel(offset_x, index1, channel_index) ==
    IF offset_x + index1 >= img_width * pixel_tuple_len
    THEN -index1
    ELSE offset_x

\* Line 190: offset_x after the column wrap at flat column index1.
WrapX(offset_x, index1, channel_index) ==
    IF offset_x + index1 >= img_width * pixel_tuple_len
    THEN -index1 + channel_index
    ELSE offset_x

\* The loop of lines 184-191 from the n-th position of np.ndenumerate's
\* row-major order on; st holds the two running offsets, the output array
\* and whether an IndexError has ended the loop.
RECURSIVE ColorLoop(_, _, _, _)
ColorLoop(in, channel_index, n, st) ==
    LET cols == img_width * pixel_tuple_len
        index0 == n \div cols
        index1 == n % cols
    IN  IF n >= img_height * cols \/ st.raised
        THEN st
        ELSE IF ~Enumerated(index1)
        THEN ColorLoop(in, channel_index, n + 1, st)
        ELSE LET oy == WrapY(st.offset_y, index0)
                 ox == WrapX(st.offset_x, index1, channel_index)
                 i0 == oy + index0
                 i1 == ox + index1
             IN  IF InAxis(i0, img_height) /\ InAxis(i1, cols)
                 THEN ColorLoop(in, channel_index, n + 1,
                        [offset_y |-> oy, offset_x |-> ox, raised |-> FALSE,
                         outputarr |->
                            [st.outputarr EXCEPT
                                ![AxisIndex(i0, img_height)][AxisIndex(i1, cols)] =
                                    in[index0][index1]]])
                 ELSE [st EXCEPT !.offset_y = oy, !.offset_x = ox, !.raised = TRUE]

\* The buffers after color_offset(offset_x, offset_y, channel_index), and
\* whether the call raised.
ColorOffset(in, out, offset_x, offset_y, channel_index) ==
    LET st == ColorLoop(in, channel_index, 0,
                        [offset_y |-> offset_y,
                         offset_x |-> FlatOffset(offset_x, channel_index),
                         raised |-> FALSE, outputarr |-> out])
    IN  [inputarr |-> in, outputarr |-> st.outputarr, raised |-> st.raised]

\* get_random_channel: randint(0, self.pixel_tuple_len - 1)
Channels == 0..(pixel_tuple_len - 1)

\* Line 65: randint(-glitch_amount * 2, glitch_amount * 2)
ColorOffsets(a) == (-a * 2)..(a * 2)

\* One call of color_offset, from the state `back` the caller continues in.
ColorOffsetCall(offset_x, offset_y, channel_index, back) ==
    \E b \in {ColorOffset(inputarr, outputarr, offset_x, offset_y, channel_index)} :
        /\ pc' = IF b.raised THEN "error" ELSE back
        /\ err' = IF b.raised THEN "IndexError" ELSE "none"
        /\ inputarr' = b.inputarr
        /\ outputarr' = b.outputarr

\* Lines 65-72: the three draws, color_offset, and the return.
ColorPass ==
    /\ pc = "flat"
    /\ \E offset_x \in ColorOffsets(glitch_amount),
          offset_y \in ColorOffsets(glitch_amount),
          channel_index \in Channels :
        /\ ColorOffsetCall(offset_x, offset_y, channel_index, "done")
        /\ call' = [NoCall EXCEPT !.op = "color_pass",
                                  !.channel_index = channel_index]
    /\ glitch_img' = IF pc' = "done" THEN outputarr' ELSE NoArray
    /\ draws' = Draw(3)
    /\ UNCHANGED <<img_width, img_height, pixel_tuple_len, glitch_amount,
                   max_offset, iter, lastOffset>>

Next ==
    \/ RejectAmount
    \/ RejectMissing
    \/ RejectFormat
    \/ Decode
    \/ LoopSkip
    \/ LoopShift
    \/ Reshape
    \/ ColorPass

Spec == Init /\ [][Next]_vars

----------------------------------------------------------------------------
(* The methods called one by one, as a test of a single method calls them: *)
(* the fields are set as lines 26-38 set them, then glitch_right and       *)
(* glitch_left are called with any offset up to the width, or the arrays   *)
(* are reshaped as in lines 60-61 and color_offset is called once with any *)
(* offsets up to MaxShift either way.                                      *)

SetFields(s) ==
    /\ img_width' = s[1]
    /\ img_height' = s[2]
    /\ pixel_tuple_len' = s[3]
    /\ inputarr' = Pixels(s[1], s[2], s[3])
    /\ outputarr' = Pixels(s[1], s[2], s[3])

SetUp ==
    \E s \in Shapes :
        /\ Fresh
        /\ SetFields(s)
        /\ pc' = "ready"
        /\ call' = [NoCall EXCEPT !.op = "setup"]
        /\ lastOffset' = [r \in 0..(s[2] - 1) |-> 0]
        /\ UNCHANGED <<err, glitch_amount, max_offset, iter, draws, glitch_img>>

SetUpFlat ==
    \E s \in Shapes :
        /\ Fresh
        /\ SetFields(s)
        /\ pc' = "ready_flat"
        /\ call' = [NoCall EXCEPT !.op = "setup"]
        /\ UNCHANGED <<err, glitch_amount, max_offset, iter, lastOffset, draws,
                       glitch_img>>

CallGlitchRight ==
    /\ pc = "ready"
    /\ \E offset \in 0..img_width : Shift("glitch_right", offset, "ready")
    /\ draws' = Draw(IF ChunkHeights = {} THEN 1 ELSE 2)
    /\ UNCHANGED <<img_width, img_height, pixel_tuple_len, glitch_amount,
                   max_offset, iter, glitch_img>>

CallGlitchLeft ==
    /\ pc = "ready"
    /\ \E offset \in 0..img_width : Shift("glitch_left", offset, "ready")
    /\ draws' = Draw(IF ChunkHeights = {} THEN 1 ELSE 2)
    /\ UNCHANGED <<img_width, img_height, pixel_tuple_len, glitch_amount,
                   max_offset, iter, glitch_img>>

CallColorOffset ==
    /\ pc = "ready_flat"
    /\ \E offset_x \in (-MaxShift)..MaxShift, offset_y \in (-MaxShift)..MaxShift,
          channel_index \in Channels :
        /\ ColorOffsetCall(offset_x, offset_y, channel_index, "returned")
        /\ call' = [NoCall EXCEPT !.op = "color_offset",
                                  !.offset_x = offset_x,
                                  !.offset_y = offset_y,
                                  !.channel_index = channel_index]
    /\ UNCHANGED <<img_width, img_height, pixel_tuple_len, glitch_amount,
                   max_offset, iter, lastOffset, draws, glitch_img>>

NextAPI ==
    \/ SetUp
    \/ SetUpFlat
    \/ CallGlitchRight
    \/ CallGlitchLeft
    \/ CallColorOffset

SpecAPI == Init /\ [][NextAPI]_vars

----------------------------------------------------------------------------
(* Properties                                                              *)

Rows == DOMAIN outputarr
FlatCols == 0..(img_width * pixel_tuple_len - 1)
ShiftOps == {"glitch_right", "glitch_left"}

\* The source row r rotated to the right by `offset` pixels, at flat column k.
Rotated(r, k, offset) ==
    inputarr[r][((k \div pixel_tuple_len - offset) % img_width) * pixel_tuple_len
                + (k % pixel_tuple_len)]

\* C1: color_offset with offset_x = 0 and offset_y = 0 leaves every sample
\* of the chosen channel as the source has it at the same place.
\* (As claimed; the code copies channel 0 into the chosen channel's slot.)
C1_ZeroOffsetKeepsChannel ==
    (call.op = "color_offset" /\ call.offset_x = 0 /\ call.offset_y = 0)
        => /\ pc = "returned"
           /\ \A r \in Rows : \A k \in FlatCols :
                k % pixel_tuple_len = call.channel_index
                    => outputarr[r][k] = inputarr[r][k]

\* C2: color_offset never indexes out of range, and it writes the source
\* sample at (row, flatCol) to ((row + offset_y) mod height,
\* (flatCol + flat offset) mod (width * pixel_tuple_len)), for negative
\* offsets and for offsets beyond the image too.
\* (As claimed; the code raises IndexError below -height or -width and
\* takes every offset from the height or width up for 0.)
C2_WrapIsModular ==
    call.op = "color_offset"
        => /\ pc = "returned"
           /\ \A r \in Rows : \A k \in FlatCols :
                Enumerated(k)
                    => outputarr
                         [(r + call.offset_y) % img_height]
                         [(k + FlatOffset(call.offset_x, call.channel_index))
                              % (img_width * pixel_tuple_len)]
                       = inputarr[r][k]

\* C3: the channel pass changes no sample of the output outside the slot of
\* the chosen channel: every other sample stays as the band shifts left it,
\* whatever the offsets, wraps included, and also when the pass raises.
C3_OtherChannelsUntouched ==
    [][pc = "flat"
          => \A r \in Rows : \A k \in FlatCols :
                k % pixel_tuple_len # call'.channel_index
                    => outputarr'[r][k] = outputarr[r][k]]_vars

\* C3, witness: a pass over an image of several bands has returned, it has
\* displaced the chosen channel, and a band shift shows in another channel.
C3_Witness ==
    /\ pc = "done"
    /\ call.op = "color_pass"
    /\ pixel_tuple_len >= 2
    /\ \E r \in Rows : \E k \in FlatCols :
        /\ k % pixel_tuple_len # call.channel_index
        /\ outputarr[r][k] # inputarr[r][k]
    /\ \E r \in Rows : \E k \in FlatCols :
        /\ k % pixel_tuple_len = call.channel_index
        /\ outputarr[r][k] \div (img_width * pixel_tuple_len) > r

\* C4: glitch_right and glitch_left called with offset 0 raise InvalidOffset,
\* draw nothing and leave the output as it is; stated for the images whose
\* height lets a band be drawn at all.
\* (As claimed; the code has no such check: it draws a band and pastes the
\* source rows into it unshifted.)
C4_ZeroOffsetRejected ==
    [][(pc = "ready" /\ ChunkHeights # {} /\ call'.op \in ShiftOps /\ call'.offset = 0)
          => /\ err' = "InvalidOffset"
             /\ draws' = draws
             /\ outputarr' = outputarr]_vars

\* C5: a glitch_image call with an amount outside 1..10 raises at once: the
\* fields of the instance and the count of random draws stay as they were,
\* no band shift or channel pass is started, and no image is returned.
C5_InvalidAmountRejected ==
    [][(call'.op = "glitch_image" /\ call'.glitch_amount \notin MinAmount..MaxAmount)
          => /\ pc' = "error"
             /\ err' = "glitch_amount"
             /\ UNCHANGED <<fields, draws, lastOffset, iter>>
             /\ glitch_img' = NoArray]_vars

\* C5, witness: a call was rejected for its amount on an instance that a
\* finished call had left its arrays in.
C5_Witness ==
    /\ pc = "error"
    /\ err = "glitch_amount"
    /\ call.glitch_amount = MaxAmount + 1
    /\ img_width > 0
    /\ outputarr # inputarr
    /\ glitch_img = NoArray

\* C6: from decoding on, through every band shift and the channel pass,
\* inputarr holds the decoded samples.
C6_SourceNeverMutated ==
    img_width > 0 => inputarr = Pixels(img_width, img_height, pixel_tuple_len)

\* C6, witness: a call has returned after a band shift and a channel pass
\* that both changed the output.
C6_Witness ==
    /\ pc = "done"
    /\ glitch_amount = MaxAmount
    /\ \E r \in Rows : \E k \in FlatCols :
        /\ k % pixel_tuple_len # call.channel_index
        /\ outputarr[r][k] # inputarr[r][k]
    /\ \E r \in Rows : \E k \in FlatCols :
        /\ k % pixel_tuple_len = call.channel_index
        /\ outputarr[r][k] \div (img_width * pixel_tuple_len) # r

\* C7: for every image and every amount in 1..10 glitch_image returns,
\* whatever is drawn, an image of the same shape whose samples are all
\* samples of the source.
\* (As claimed; the code raises ValueError and IndexError on small images.)
C7_GlitchCompletes ==
    /\ pc = "error" => err \in {"glitch_amount", "not_found", "not_supported"}
    /\ pc = "done"
        => /\ DOMAIN glitch_img = 0..(img_height - 1)
           /\ \A r \in DOMAIN glitch_img :
                /\ DOMAIN glitch_img[r] = FlatCols
                /\ \A k \in FlatCols :
                    \E r2 \in DOMAIN inputarr : \E k2 \in FlatCols :
                        glitch_img[r][k] = inputarr[r2][k2]

\* C8: while bands are shifted, every row of the output is the source row
\* rotated to the right by the offset of the last shift over it, whole
\* pixels together, and the source row itself if there was none.
C8_RowsRotatedByLastShift ==
    pc = "loop"
        => \A r \in Rows : \A k \in FlatCols :
                outputarr[r][k] = Rotated(r, k, lastOffset[r])

\* C8, witness: after several iterations one row is shifted by one pixel,
\* one by two, and one not at all, in an image three pixels wide.
C8_Witness ==
    /\ pc = "loop"
    /\ img_width = 3
    /\ iter >= 3
    /\ \E r \in Rows : lastOffset[r] = 1 /\ outputarr[r] # inputarr[r]
    /\ \E r \in Rows : lastOffset[r] = 2 /\ outputarr[r] # inputarr[r]
    /\ \E r \in Rows : lastOffset[r] = 0

\* C9: every offset glitch_image passes to a band shift is at least 1 and
\* below the width.
\* (As claimed; at amount 10 max_offset is the width itself.)
C9_OffsetBelowWidth ==
    (call.op \in ShiftOps) => (1 <= call.offset /\ call.offset < img_width)

\* C9, as amended: every offset glitch_image passes to a band shift is at
\* least 1 and at most the width, and it is the width only at amount 10.
C9_OffsetAtMostWidth ==
    (call.op \in ShiftOps)
        => /\ 1 <= call.offset
           /\ call.offset <= img_width
           /\ call.offset = img_width => glitch_amount = MaxAmount

\* C9, witness: a band was shifted by the whole width.
C9_Witness ==
    /\ pc = "loop"
    /\ call.op = "glitch_right"
    /\ call.offset = img_width
    /\ call.chunk_height = 1
    /\ img_width >= 2

\* C10: the band of every shift starts at a row of the image, is at least
\* one row and at most max(1, height / 4) rows high and ends inside the
\* image, and choosing it raises nothing.
\* (As claimed; the code can start at row `height`, which leaves an empty
\* band, and raises ValueError below height 4.)
C10_BandInsideBuffer ==
    (call.op \in ShiftOps)
        => /\ err # "ValueError"
           /\ 0 <= call.start_y
           /\ call.start_y < img_height
           /\ 1 <= call.chunk_height
           /\ call.chunk_height <= Max(1, img_height \div 4)
           /\ call.start_y + call.chunk_height <= img_height
====
